---- MODULE Spec2Model ----
(***************************************************************************)
(* Model of the container component                                        *)
(*   distillation_stage_feature_transform_engine                           *)
(* (google_cloud_pipeline_components/preview/automl/tabular).              *)
(*                                                                         *)
(* The component is one pure construction: a call supplies the required    *)
(* parameters and any subset of the optional ones, Python binds the        *)
(* omitted optional parameters to the defaults of the signature, and the   *)
(* body returns a ContainerSpec with a fixed image, an empty command and   *)
(* an ordered argument list.  The orchestrator supplies the pipeline job   *)
(* id, the pipeline task id and the locations of the three outputs; every  *)
(* ConcatPlaceholder is the plain concatenation of its items.              *)
(*                                                                         *)
(* Strings are TLA+ strings, concatenated with \o, so that two strings     *)
(* built from different pieces are equal exactly when their characters     *)
(* are.  Integers and booleans are converted to strings by IntToStr and    *)
(* BoolToStr.                                                              *)
(***************************************************************************)
EXTENDS Integers, Sequences, FiniteSets, TLC

VARIABLES invoked, call, result

vars == <<invoked, call, result>>

(***************************************************************************)
(* Bounds of the model.                                                    *)
(***************************************************************************)
\* Longest job id / task id drawn over IdAlphabet.
MaxIdLen == 2
\* How many optional parameters one call may supply next to omitting the
\* others, or omit next to supplying the others.
MaxDeviating == 1

(***************************************************************************)
(* The signature (lines 23-45).                                            *)
(***************************************************************************)
RequiredNames ==
  {"root_dir", "project", "location", "transform_config_path",
   "bigquery_train_full_table_uri", "bigquery_validate_full_table_uri",
   "target_column", "prediction_type"}

OptionalNames ==
  {"bigquery_staging_full_dataset_id", "weight_column",
   "dataflow_machine_type", "dataflow_max_num_workers",
   "dataflow_disk_size_gb", "dataflow_subnetwork",
   "dataflow_use_public_ips", "dataflow_service_account",
   "encryption_spec_key_name", "autodetect_csv_schema"}

\* Mutant of Defaults: two defaults of the signature changed.
DefaultsChanged ==
  [bigquery_staging_full_dataset_id |-> "",
   weight_column                    |-> "",
   dataflow_machine_type            |-> "n1-standard-4",
   dataflow_max_num_workers         |-> 10,
   dataflow_disk_size_gb            |-> 40,
   dataflow_subnetwork              |-> "",
   dataflow_use_public_ips          |-> TRUE,
   dataflow_service_account         |-> "",
   encryption_spec_key_name         |-> "",
   autodetect_csv_schema            |-> FALSE]

\* The default values of the optional parameters (lines 35-44).
Defaults ==
  [bigquery_staging_full_dataset_id |-> "",
   weight_column                    |-> "",
   dataflow_machine_type            |-> "n1-standard-16",
   dataflow_max_num_workers         |-> 25,
   dataflow_disk_size_gb            |-> 40,
   dataflow_subnetwork              |-> "",
   dataflow_use_public_ips          |-> TRUE,
   dataflow_service_account         |-> "",
   encryption_spec_key_name         |-> "",
   autodetect_csv_schema            |-> FALSE]

\* Python's binding of a call's keyword arguments to the signature: a
\* supplied argument is used, an omitted optional one takes its default.
Bind(kwargs) ==
  [n \in RequiredNames \cup OptionalNames |->
     IF n \in DOMAIN kwargs THEN kwargs[n] ELSE Defaults[n]]

(***************************************************************************)
(* Conversions of non-string items to strings.                             *)
(***************************************************************************)
Digit(d) == SubSeq("0123456789", d + 1, d + 1)

RECURSIVE NatToStr(_)
NatToStr(n) == IF n < 10 THEN Digit(n) ELSE NatToStr(n \div 10) \o Digit(n % 10)

\* Base-10 representation of an integer, no separators.
IntToStr(n) == IF n < 0 THEN "-" \o NatToStr(-n) ELSE NatToStr(n)

\* A boolean serializes to "true" / "false".
BoolToStr(b) == IF b THEN "true" ELSE "false"

(***************************************************************************)
(* The body (lines 77-219).                                                *)
(***************************************************************************)
RECURSIVE ConcatPlaceholder(_)
\* dsl.ConcatPlaceholder(items=[...]): the items joined with nothing between.
ConcatPlaceholder(items) ==
  IF items = <<>> THEN "" ELSE Head(items) \o ConcatPlaceholder(Tail(items))

\* The image of the ContainerSpec (line 78).
Image ==
  "us-docker.pkg.dev/vertex-ai/automl-tabular/feature-transform-engine:20230910_1325"

\* Mutant of PathTemplate: the task id segment is left out.
PathTemplateNoTask(job_id, task_id, suffix) ==
  "/" \o job_id \o "/" \o suffix

\* Mutant of PathTemplate: the job id segment is left out.
PathTemplateNoJob(job_id, task_id, suffix) ==
  "/" \o task_id \o "/" \o suffix

\* f'/{dsl.PIPELINE_JOB_ID_PLACEHOLDER}/{dsl.PIPELINE_TASK_ID_PLACEHOLDER}/<suffix>'
\* with the two placeholders resolved by the orchestrator.
PathTemplate(job_id, task_id, suffix) ==
  "/" \o job_id \o "/" \o task_id \o "/" \o suffix

\* f'--job_name=feature-transform-engine-{JOB}-{TASK}' (line 158).
JobName(job_id, task_id) ==
  "--job_name=feature-transform-engine-" \o job_id \o "-" \o task_id

\* args=[...] (lines 80-218), p the bound parameters, out the locations of
\* the outputs.
Args(p, out, job_id, task_id) ==
  << "distillation_stage_feature_transform_engine",
     ConcatPlaceholder(<<"--project=", p.project>>),
     ConcatPlaceholder(<<"--location=", p.location>>),
     ConcatPlaceholder(<<"--transform_config_path=", p.transform_config_path>>),
     ConcatPlaceholder(<<"--bigquery_train_full_table_uri=",
                         p.bigquery_train_full_table_uri>>),
     ConcatPlaceholder(<<"--bigquery_validate_full_table_uri=",
                         p.bigquery_validate_full_table_uri>>),
     ConcatPlaceholder(<<"--bigquery_staging_full_dataset_id=",
                         p.bigquery_staging_full_dataset_id>>),
     ConcatPlaceholder(<<"--target_column=", p.target_column>>),
     ConcatPlaceholder(<<"--prediction_type=", p.prediction_type>>),
     ConcatPlaceholder(<<"--weight_column=", p.weight_column>>),
     ConcatPlaceholder(<<"--error_file_path=", p.root_dir,
                         PathTemplate(job_id, task_id, "error.txt")>>),
     ConcatPlaceholder(<<"--transform_output_artifact_path=",
                         out.transform_output_uri>>),
     ConcatPlaceholder(<<"--transform_output_path=", p.root_dir,
                         PathTemplate(job_id, task_id, "transform")>>),
     ConcatPlaceholder(<<"--materialized_examples_path=", p.root_dir,
                         PathTemplate(job_id, task_id, "materialized")>>),
     ConcatPlaceholder(<<"--export_data_path=", p.root_dir,
                         PathTemplate(job_id, task_id, "export")>>),
     ConcatPlaceholder(<<"--materialized_data_path=", p.root_dir,
                         PathTemplate(job_id, task_id, "materialized_data")>>),
     ConcatPlaceholder(<<"--materialized_data_artifact_path=",
                         out.materialized_data_uri>>),
     JobName(job_id, task_id),
     ConcatPlaceholder(<<"--dataflow_project=", p.project>>),
     ConcatPlaceholder(<<"--dataflow_staging_dir=", p.root_dir,
                         PathTemplate(job_id, task_id, "dataflow_staging")>>),
     ConcatPlaceholder(<<"--dataflow_tmp_dir=", p.root_dir,
                         PathTemplate(job_id, task_id, "dataflow_tmp")>>),
     ConcatPlaceholder(<<"--dataflow_max_num_workers=",
                         IntToStr(p.dataflow_max_num_workers)>>),
     ConcatPlaceholder(<<"--dataflow_machine_type=", p.dataflow_machine_type>>),
     "--dataflow_worker_container_image=us-docker.pkg.dev/vertex-ai/automl-tabular/dataflow-worker:20230910_1325",
     ConcatPlaceholder(<<"--dataflow_disk_size_gb=",
                         IntToStr(p.dataflow_disk_size_gb)>>),
     ConcatPlaceholder(<<"--dataflow_subnetwork_fully_qualified=",
                         p.dataflow_subnetwork>>),
     ConcatPlaceholder(<<"--dataflow_use_public_ips=",
                         BoolToStr(p.dataflow_use_public_ips)>>),
     ConcatPlaceholder(<<"--dataflow_service_account=",
                         p.dataflow_service_account>>),
     ConcatPlaceholder(<<"--dataflow_kms_key=", p.encryption_spec_key_name>>),
     ConcatPlaceholder(<<"--gcp_resources_path=", out.gcp_resources>>) >>

\* Mutant of ContainerSpec: the last argument loses its flag.
ContainerSpecPositional(p, out, job_id, task_id) ==
  [image |-> Image, command |-> <<>>,
   args |-> [Args(p, out, job_id, task_id) EXCEPT ![30] = out.gcp_resources]]

\* Mutant of ContainerSpec: materialized_data_path is given the suffix of
\* materialized_examples_path.
ContainerSpecSameSuffix(p, out, job_id, task_id) ==
  [image |-> Image, command |-> <<>>,
   args |-> [Args(p, out, job_id, task_id) EXCEPT ![16] =
               ConcatPlaceholder(<<"--materialized_data_path=", p.root_dir,
                                   PathTemplate(job_id, task_id, "materialized")>>)]]

\* Mutant of ContainerSpec: the dataflow project is passed as a second
\* --project flag.
ContainerSpecSameFlag(p, out, job_id, task_id) ==
  [image |-> Image, command |-> <<>>,
   args |-> [Args(p, out, job_id, task_id) EXCEPT ![19] =
               ConcatPlaceholder(<<"--project=", p.project>>)]]

\* Mutant of ContainerSpec: autodetect_csv_schema is wired into the
\* argument list.
ContainerSpecAutodetect(p, out, job_id, task_id) ==
  [image |-> Image, command |-> <<>>,
   args |-> Append(Args(p, out, job_id, task_id),
                   ConcatPlaceholder(<<"--autodetect_csv_schema=",
                                       BoolToStr(p.autodetect_csv_schema)>>))]

\* Mutant of ContainerSpec: a prediction_type outside the documented three
\* is rejected and no argument list is built.
ContainerSpecValidating(p, out, job_id, task_id) ==
  IF p.prediction_type \in {"classification", "regression", "time_series"}
  THEN [image |-> Image, command |-> <<>>, args |-> Args(p, out, job_id, task_id)]
  ELSE [image |-> Image, command |-> <<>>, args |-> <<>>]

\* Mutant of ContainerSpec: the two artifact locations are exchanged.
ContainerSpecSwapped(p, out, job_id, task_id) ==
  [image |-> Image, command |-> <<>>,
   args |-> [Args(p, out, job_id, task_id) EXCEPT
               ![12] = ConcatPlaceholder(<<"--transform_output_artifact_path=",
                                           out.materialized_data_uri>>),
               ![17] = ConcatPlaceholder(<<"--materialized_data_artifact_path=",
                                           out.transform_output_uri>>)]]

\* return dsl.ContainerSpec(image=..., command=[], args=[...]) (lines 77-219).
ContainerSpec(p, out, job_id, task_id) ==
  [image |-> Image, command |-> <<>>, args |-> Args(p, out, job_id, task_id)]

\* One invocation of the component: bind the call, build the ContainerSpec.
distillation_stage_feature_transform_engine(kwargs, out, job_id, task_id) ==
  ContainerSpec(Bind(kwargs), out, job_id, task_id)

(***************************************************************************)
(* The calls the model makes.                                              *)
(***************************************************************************)
Tasks == {"t1", "t2"}

IdAlphabet == {"a", "/"}

RECURSIVE StrsOfLen(_)
StrsOfLen(n) ==
  IF n = 0 THEN {""} ELSE {s \o c : s \in StrsOfLen(n - 1), c \in IdAlphabet}

\* Job ids and task ids are opaque strings: every non-empty string over
\* IdAlphabet up to MaxIdLen characters.
Ids == UNION {StrsOfLen(n) : n \in 1..MaxIdLen}

RootDirs == {"gs://bucket", "gs://bucket/a"}

PredictionTypes == {"classification", "time_series", "ranking"}

\* The required arguments of a call.
Required(root_dir, prediction_type) ==
  [root_dir                         |-> root_dir,
   project                          |-> "my-project",
   location                         |-> "us-central1",
   transform_config_path            |-> "gs://bucket/fte/transform_config.json",
   bigquery_train_full_table_uri    |-> "bq://my-project.ds.train",
   bigquery_validate_full_table_uri |-> "bq://my-project.ds.validate",
   target_column                    |-> "soft_target",
   prediction_type                  |-> prediction_type]

\* The value a call supplies for an optional parameter it does not omit.
Supplied ==
  [bigquery_staging_full_dataset_id |-> "not a dataset id",
   weight_column                    |-> "weight col=1",
   dataflow_machine_type            |-> "e2-highmem-8",
   dataflow_max_num_workers         |-> 100,
   dataflow_disk_size_gb            |-> 7,
   dataflow_subnetwork              |-> "https://www.googleapis.com/compute/v1/projects/p/regions/r/subnetworks/s",
   dataflow_use_public_ips          |-> FALSE,
   dataflow_service_account         |-> "sa@my-project.iam.gserviceaccount.com",
   encryption_spec_key_name         |-> "projects/p/locations/l/keyRings/r/cryptoKeys/k",
   autodetect_csv_schema            |-> TRUE]

\* The sets of optional parameters a call supplies: at most MaxDeviating
\* of them, or all but at most MaxDeviating.
SuppliedSets ==
  {S \in SUBSET OptionalNames :
     \/ Cardinality(S) <= MaxDeviating
     \/ Cardinality(OptionalNames \ S) <= MaxDeviating}

Restrict(f, S) == [n \in S |-> f[n]]

\* Keyword arguments of the calls of a single task.
Kwargs ==
  {Required(r, pt) @@ Restrict(Supplied, S) :
     r \in RootDirs, pt \in PredictionTypes, S \in SuppliedSets}

\* Locations the orchestrator allocates for the three outputs.
Outputs ==
  {[materialized_data_uri |-> "gs://pipeline-root/md",
    transform_output_uri  |-> "gs://pipeline-root/to",
    gcp_resources         |-> "/gcs/pipeline-root/gcp_resources"],
   [materialized_data_uri |-> "gs://other/run 2/materialized_data",
    transform_output_uri  |-> "gs://other/run 2/transform_output",
    gcp_resources         |-> "/gcs/other/run 2/gcp_resources"]}

\* Job id and task id of the calls of a single task.
IdPairs == {<<"job1", "task1">>, <<"1234", "-5/6">>, <<"", "">>}

Call(kwargs, out, job_id, task_id) ==
  [kwargs |-> kwargs, out |-> out, job_id |-> job_id, task_id |-> task_id]

Calls ==
  {Call(kw, out, id[1], id[2]) : kw \in Kwargs, out \in Outputs, id \in IdPairs}

\* Calls of two concurrent tasks: every root directory with every job id
\* and task id, and calls that set autodetect_csv_schema or leave it out.
BaseKwargs == Required("gs://bucket", "classification")

BaseOutputs == CHOOSE out \in Outputs : out.gcp_resources = "/gcs/pipeline-root/gcp_resources"

ConcurrentCalls ==
  {Call([BaseKwargs EXCEPT !.root_dir = r], BaseOutputs, j, t) :
     r \in RootDirs, j \in Ids, t \in Ids}
  \cup
  {Call(kw @@ Restrict(Supplied, S), BaseOutputs, "a", "a") :
     kw \in {BaseKwargs, BaseKwargs @@ [autodetect_csv_schema |-> FALSE],
             BaseKwargs @@ [autodetect_csv_schema |-> TRUE]},
     S \in {{}, OptionalNames \ {"autodetect_csv_schema"}}}

(***************************************************************************)
(* State machine.                                                          *)
(***************************************************************************)
NoCall == Call(<<>>, <<>>, "", "")

NoResult == [image |-> "", command |-> <<>>, args |-> <<>>]

Init ==
  /\ invoked = [t \in Tasks |-> FALSE]
  /\ call = [t \in Tasks |-> NoCall]
  /\ result = [t \in Tasks |-> NoResult]

\* Task t is instantiated: the component function is called, once, with a
\* call of the set calls, and its ContainerSpec is kept.
Build(t, calls) ==
  /\ ~invoked[t]
  /\ \E c \in calls :
       /\ invoked' = [invoked EXCEPT ![t] = TRUE]
       /\ call' = [call EXCEPT ![t] = c]
       /\ result' = [result EXCEPT ![t] =
            distillation_stage_feature_transform_engine(
              c.kwargs, c.out, c.job_id, c.task_id)]

\* One task, instantiated with any call.
Next == Build("t1", Calls)

Spec == Init /\ [][Next]_vars

\* Two tasks of concurrent runs, each instantiated with any call.
NextConcurrent == \E t \in Tasks : Build(t, ConcurrentCalls)

SpecConcurrent == Init /\ [][NextConcurrent]_vars

(***************************************************************************)
(* Reading an argument list back: the flag name of an entry is the text    *)
(* between its leading -- and its first =, its value the text after it.    *)
(***************************************************************************)
RECURSIVE Find(_, _, _)
\* The first position >= i of character c in s, 0 when there is none.
Find(s, c, i) ==
  IF i > Len(s) THEN 0
  ELSE IF SubSeq(s, i, i) = c THEN i ELSE Find(s, c, i + 1)

RECURSIVE FindLast(_, _, _)
\* The last position <= i of character c in s, 0 when there is none.
FindLast(s, c, i) ==
  IF i < 1 THEN 0
  ELSE IF SubSeq(s, i, i) = c THEN i ELSE FindLast(s, c, i - 1)

NameChars == {SubSeq("abcdefghijklmnopqrstuvwxyz_", i, i) : i \in 1..27}

RECURSIVE ScanName(_, _)
\* The position of the first = of e at or after i when only letters and _
\* come before it, 0 otherwise.
ScanName(e, i) ==
  IF i > Len(e) THEN 0
  ELSE LET c == SubSeq(e, i, i)
       IN IF c = "=" THEN i
          ELSE IF c \in NameChars THEN ScanName(e, i + 1) ELSE 0

\* Where the name of a flag e ends: the position of its first =.
NameEnd(e) ==
  IF Len(e) >= 4 /\ SubSeq(e, 1, 2) = "--" THEN ScanName(e, 3) ELSE 0

\* e has the form --<name>=<value> with a non-empty name of letters and _.
IsFlag(e) == NameEnd(e) > 3

\* An entry read back: whether it is a flag, its name and its value.
Parse(e) ==
  LET k == NameEnd(e)
  IN IF k > 3
     THEN [flag |-> TRUE, name |-> SubSeq(e, 3, k - 1),
           value |-> SubSeq(e, k + 1, Len(e))]
     ELSE [flag |-> FALSE, name |-> "", value |-> e]

FlagName(e) == Parse(e).name

FlagValue(e) == Parse(e).value

ArgsOf(t) == result[t].args

\* Task t's argument list read back, entry by entry.
Parsed(t) == [i \in 1..Len(ArgsOf(t)) |-> Parse(ArgsOf(t)[i])]

\* e starts with the string pre.
HasPrefix(e, pre) == Len(e) >= Len(pre) /\ SubSeq(e, 1, Len(pre)) = pre

\* The entries of the argument list args that carry flag name (letters and
\* _): those that start with --<name>=.
Entries(args, name) ==
  {i \in 1..Len(args) : HasPrefix(args[i], "--" \o name \o "=")}

\* The values the argument list args gives flag name: what follows
\* --<name>= in those entries.
ValuesOf(args, name) ==
  {SubSeq(args[i], Len(name) + 4, Len(args[i])) : i \in Entries(args, name)}

Range(seq) == {seq[i] : i \in 1..Len(seq)}

\* The flags whose value is a path generated under root_dir.
GeneratedPathFlags ==
  {"error_file_path", "transform_output_path", "materialized_examples_path",
   "export_data_path", "materialized_data_path", "dataflow_staging_dir",
   "dataflow_tmp_dir"}

GeneratedPaths(args) == UNION {ValuesOf(args, f) : f \in GeneratedPathFlags}

\* root_dir + "/" + job_id + "/" + task_id + "/" + suffix for task t's call.
Templated(t, suffix) ==
  call[t].kwargs.root_dir \o "/" \o call[t].job_id \o "/" \o call[t].task_id
    \o "/" \o suffix

(***************************************************************************)
(* C2: omitted optional parameters and their defaults.                     *)
(***************************************************************************)
\* The argument the documentation promises for each omitted optional
\* parameter that has a flag.
DocumentedDefaultArg ==
  [bigquery_staging_full_dataset_id |-> "--bigquery_staging_full_dataset_id=",
   weight_column                    |-> "--weight_column=",
   dataflow_machine_type            |-> "--dataflow_machine_type=n1-standard-16",
   dataflow_max_num_workers         |-> "--dataflow_max_num_workers=25",
   dataflow_disk_size_gb            |-> "--dataflow_disk_size_gb=40",
   dataflow_subnetwork              |-> "--dataflow_subnetwork_fully_qualified=",
   dataflow_use_public_ips          |-> "--dataflow_use_public_ips=true",
   dataflow_service_account         |-> "--dataflow_service_account=",
   encryption_spec_key_name         |-> "--dataflow_kms_key="]

Omitted(t) == OptionalNames \ DOMAIN call[t].kwargs

\* The flag names of the argument list that belong to other parameters or
\* to no parameter.
OtherFlagNames ==
  {"project", "location", "transform_config_path",
   "bigquery_train_full_table_uri", "bigquery_validate_full_table_uri",
   "bigquery_staging_full_dataset_id", "target_column", "prediction_type",
   "weight_column", "transform_output_artifact_path",
   "materialized_data_artifact_path", "job_name", "dataflow_project",
   "dataflow_max_num_workers", "dataflow_machine_type",
   "dataflow_worker_container_image", "dataflow_disk_size_gb",
   "dataflow_subnetwork_fully_qualified", "dataflow_use_public_ips",
   "dataflow_service_account", "dataflow_kms_key", "gcp_resources_path"}
  \cup GeneratedPathFlags

\* Some entry of a parsed argument list is a flag of autodetect_csv_schema
\* (a flag no other parameter owns) carrying value v.
CarriesAutodetect(pa, v) ==
  \E i \in DOMAIN pa :
    pa[i].flag /\ pa[i].name \notin OtherFlagNames /\ pa[i].value = v

\* C2 as stated: each of the ten optional parameters, when omitted, has an
\* argument carrying its default in the argument list.
C2_AllTenDefaultsEmitted ==
  \A t \in Tasks : invoked[t] =>
    \A n \in Omitted(t) :
      IF n = "autodetect_csv_schema"
      THEN CarriesAutodetect(Parsed(t), "false")
      ELSE DocumentedDefaultArg[n] \in Range(ArgsOf(t))

\* C2, amended: each of the nine optional parameters other than
\* autodetect_csv_schema, when omitted, has exactly one argument, carrying
\* its documented default; autodetect_csv_schema, omitted, has no argument.
C2_NineDefaultsEmitted ==
  \A t \in Tasks : invoked[t] =>
    \A n \in Omitted(t) :
      IF n = "autodetect_csv_schema"
      THEN \A v \in {"false", "true"} : ~CarriesAutodetect(Parsed(t), v)
      ELSE LET a == DocumentedDefaultArg[n]
           IN /\ a \in Range(ArgsOf(t))
              /\ ValuesOf(ArgsOf(t), FlagName(a)) = {FlagValue(a)}

\* A call that omits dataflow_machine_type and autodetect_csv_schema and
\* supplies dataflow_disk_size_gb has been built.
C2_Witness ==
  /\ invoked["t1"]
  /\ {"dataflow_machine_type", "autodetect_csv_schema"} \subseteq Omitted("t1")
  /\ "dataflow_disk_size_gb" \notin Omitted("t1")
  /\ "--dataflow_machine_type=n1-standard-16" \in Range(ArgsOf("t1"))

(***************************************************************************)
(* C3: the form of the entries of the argument list.                       *)
(***************************************************************************)
\* C3 as stated: every entry of the argument list has the form
\* --<name>=<value>.
C3_EveryEntryIsFlag ==
  \A t \in Tasks : invoked[t] =>
    \A i \in 1..Len(ArgsOf(t)) : IsFlag(ArgsOf(t)[i])

\* C3, amended: the first entry of the argument list is the bare word
\* distillation_stage_feature_transform_engine, and every entry after it
\* has the form --<name>=<value>.
C3_EveryEntryButFirstIsFlag ==
  \A t \in Tasks : invoked[t] =>
    /\ ArgsOf(t)[1] = "distillation_stage_feature_transform_engine"
    /\ ~IsFlag(ArgsOf(t)[1])
    /\ \A i \in 2..Len(ArgsOf(t)) : IsFlag(ArgsOf(t)[i])

\* A call whose values hold spaces and = has been built into 30 entries.
C3_Witness ==
  /\ invoked["t1"]
  /\ Len(ArgsOf("t1")) = 30
  /\ "--weight_column=weight col=1" \in Range(ArgsOf("t1"))

(***************************************************************************)
(* C4: the generated paths.                                                *)
(***************************************************************************)
\* The suffixes the specification lists.
ListedSuffixes ==
  {"error", "transform", "materialized", "export", "materialized_data",
   "dataflow_staging", "dataflow_tmp"}

\* The suffix the component gives each generated path.
SuffixOfFlag ==
  [error_file_path            |-> "error.txt",
   transform_output_path      |-> "transform",
   materialized_examples_path |-> "materialized",
   export_data_path           |-> "export",
   materialized_data_path     |-> "materialized_data",
   dataflow_staging_dir       |-> "dataflow_staging",
   dataflow_tmp_dir           |-> "dataflow_tmp"]

\* C4 as stated: every generated path is root_dir/job_id/task_id/suffix
\* with suffix one of error, transform, materialized, export,
\* materialized_data, dataflow_staging, dataflow_tmp.
C4_PathsUseListedSuffixes ==
  \A t \in Tasks : invoked[t] =>
    \A f \in GeneratedPathFlags :
      \E s \in ListedSuffixes : ValuesOf(ArgsOf(t), f) = {Templated(t, s)}

\* C4, amended: every generated path is root_dir/job_id/task_id/suffix
\* with suffix error.txt for the error file and transform, materialized,
\* export, materialized_data, dataflow_staging, dataflow_tmp for the
\* others; with root_dir gs://bucket, job id job1 and task id task1 the
\* list contains --transform_output_path=gs://bucket/job1/task1/transform.
C4_PathsUseTemplate ==
  \A t \in Tasks : invoked[t] =>
    /\ \A f \in GeneratedPathFlags :
         ValuesOf(ArgsOf(t), f) = {Templated(t, SuffixOfFlag[f])}
    /\ ( /\ call[t].kwargs.root_dir = "gs://bucket"
         /\ call[t].job_id = "job1"
         /\ call[t].task_id = "task1" )
       => "--transform_output_path=gs://bucket/job1/task1/transform"
            \in Range(ArgsOf(t))

\* The call of the example has been built.
C4_Witness ==
  /\ invoked["t1"]
  /\ call["t1"].kwargs.root_dir = "gs://bucket"
  /\ call["t1"].job_id = "job1"
  /\ call["t1"].task_id = "task1"
  /\ ValuesOf(ArgsOf("t1"), "transform_output_path") = {"gs://bucket/job1/task1/transform"}

(***************************************************************************)
(* C5: paths of concurrent runs and tasks.                                 *)
(***************************************************************************)
SameIds(t, u) ==
  call[t].job_id = call[u].job_id /\ call[t].task_id = call[u].task_id

\* Neither the job id nor the task id of task t's call contains a "/".
PlainIds(t) ==
  Find(call[t].job_id, "/", 1) = 0 /\ Find(call[t].task_id, "/", 1) = 0

\* C5 as stated: two builds whose (job id, task id) pairs differ share no
\* generated path.
C5_DistinctIdsNeverCollide ==
  \A t, u \in Tasks :
    (invoked[t] /\ invoked[u] /\ ~SameIds(t, u)) =>
      GeneratedPaths(ArgsOf(t)) \cap GeneratedPaths(ArgsOf(u)) = {}

\* C5, amended: two builds whose (job id, task id) pairs differ, and whose
\* job ids and task ids contain no "/", share no generated path.
C5_PlainDistinctIdsNeverCollide ==
  \A t, u \in Tasks :
    (invoked[t] /\ invoked[u] /\ ~SameIds(t, u) /\ PlainIds(t) /\ PlainIds(u)) =>
      GeneratedPaths(ArgsOf(t)) \cap GeneratedPaths(ArgsOf(u)) = {}

\* Two tasks with the same task id, the job ids a and aa, and root
\* directories one of which extends the other by /a have both been built,
\* and their fourteen paths differ.
C5_Witness ==
  /\ invoked["t1"] /\ invoked["t2"]
  /\ PlainIds("t1") /\ PlainIds("t2")
  /\ call["t1"].job_id = "a" /\ call["t2"].job_id = "aa"
  /\ call["t1"].task_id = call["t2"].task_id
  /\ call["t1"].kwargs.root_dir = "gs://bucket/a"
  /\ call["t2"].kwargs.root_dir = "gs://bucket"
  /\ Cardinality(GeneratedPaths(ArgsOf("t1")) \cup GeneratedPaths(ArgsOf("t2"))) = 14

(***************************************************************************)
(* C6: the generated paths of one build.                                   *)
(***************************************************************************)
\* The text after the last "/" of a path.
LastSegment(path) == SubSeq(path, FindLast(path, "/", Len(path)) + 1, Len(path))

\* C6: within one build, each generated path ends in the suffix of its
\* kind of artifact, the suffixes of two kinds differ, and no two generated
\* paths are equal.
C6_PathsOfOneBuildDiffer ==
  \A t \in Tasks : invoked[t] =>
    LET a == ArgsOf(t)
    IN /\ \A f \in GeneratedPathFlags :
            \A v \in ValuesOf(a, f) : LastSegment(v) = SuffixOfFlag[f]
       /\ \A f, g \in GeneratedPathFlags :
            f # g => /\ SuffixOfFlag[f] # SuffixOfFlag[g]
                     /\ ValuesOf(a, f) \cap ValuesOf(a, g) = {}
       /\ Cardinality(GeneratedPaths(a)) = Cardinality(GeneratedPathFlags)

\* A build with empty job id and task id has produced seven paths.
C6_Witness ==
  /\ invoked["t1"]
  /\ call["t1"].job_id = "" /\ call["t1"].task_id = ""
  /\ Cardinality(GeneratedPaths(ArgsOf("t1"))) = 7

(***************************************************************************)
(* C7: flag names.                                                         *)
(***************************************************************************)
\* C7: no two entries of the argument list carry the same flag name.
C7_FlagNamesDiffer ==
  \A t \in Tasks : invoked[t] =>
    LET pa == Parsed(t)
    IN \A i, j \in DOMAIN pa :
         (i # j /\ pa[i].flag /\ pa[j].flag) => pa[i].name # pa[j].name

\* A build whose argument list carries 29 flag names.
C7_Witness ==
  /\ invoked["t1"]
  /\ LET pa == Parsed("t1")
     IN Cardinality({pa[i].name : i \in {j \in DOMAIN pa : pa[j].flag}}) = 29

(***************************************************************************)
(* C8: autodetect_csv_schema.                                              *)
(***************************************************************************)
\* The keyword arguments of a call without autodetect_csv_schema.
WithoutAutodetect(kwargs) ==
  Restrict(kwargs, DOMAIN kwargs \ {"autodetect_csv_schema"})

\* The calls of tasks t and u differ at most in autodetect_csv_schema.
SameButAutodetect(t, u) ==
  /\ WithoutAutodetect(call[t].kwargs) = WithoutAutodetect(call[u].kwargs)
  /\ call[t].out = call[u].out
  /\ SameIds(t, u)

\* The value of autodetect_csv_schema in the call of task t.
Autodetect(t) == Bind(call[t].kwargs).autodetect_csv_schema

\* C8: two builds that differ only in autodetect_csv_schema have the same
\* image and the same argument list, and no entry of an argument list has
\* the flag name autodetect_csv_schema.
C8_AutodetectIgnored ==
  /\ \A t, u \in Tasks :
       (invoked[t] /\ invoked[u] /\ SameButAutodetect(t, u)) =>
         /\ result[t].image = result[u].image
         /\ result[t].args = result[u].args
  /\ \A t \in Tasks : invoked[t] =>
       Entries(ArgsOf(t), "autodetect_csv_schema") = {}

\* Two builds, one with autodetect_csv_schema TRUE and one with FALSE and
\* nothing else different, are both done.
C8_Witness ==
  /\ invoked["t1"] /\ invoked["t2"]
  /\ SameButAutodetect("t1", "t2")
  /\ Autodetect("t1") /\ ~Autodetect("t2")
  /\ "dataflow_machine_type" \in DOMAIN call["t1"].kwargs

(***************************************************************************)
(* C9: no validation.                                                      *)
(***************************************************************************)
\* C9: every build returns the complete argument list, with the
\* prediction_type and the bigquery_staging_full_dataset_id of the call in
\* it as given.
C9_NoValueRejected ==
  \A t \in Tasks : invoked[t] =>
    LET kw == call[t].kwargs
    IN /\ Len(ArgsOf(t)) = 30
       /\ result[t].image # ""
       /\ ("--prediction_type=" \o kw.prediction_type) \in Range(ArgsOf(t))
       /\ "bigquery_staging_full_dataset_id" \in DOMAIN kw =>
            ("--bigquery_staging_full_dataset_id="
               \o kw.bigquery_staging_full_dataset_id) \in Range(ArgsOf(t))

\* A build with a prediction_type outside the documented three and a
\* staging dataset id that is not projectId.datasetId.
C9_Witness ==
  /\ invoked["t1"]
  /\ call["t1"].kwargs.prediction_type
       \notin {"classification", "regression", "time_series"}
  /\ "bigquery_staging_full_dataset_id" \in DOMAIN call["t1"].kwargs
  /\ Find(call["t1"].kwargs.bigquery_staging_full_dataset_id, ".", 1) = 0
  /\ "--bigquery_staging_full_dataset_id=not a dataset id" \in Range(ArgsOf("t1"))

(***************************************************************************)
(* C10: the locations of the outputs.                                      *)
(***************************************************************************)
\* C10: the argument list has exactly one --materialized_data_artifact_path,
\* one --transform_output_artifact_path and one --gcp_resources_path, and
\* their values are the locations the orchestrator allocated.
C10_OutputLocationsPassed ==
  \A t \in Tasks : invoked[t] =>
    LET once(name, v) ==
          /\ Cardinality(Entries(ArgsOf(t), name)) = 1
          /\ ValuesOf(ArgsOf(t), name) = {v}
    IN /\ once("materialized_data_artifact_path", call[t].out.materialized_data_uri)
       /\ once("transform_output_artifact_path", call[t].out.transform_output_uri)
       /\ once("gcp_resources_path", call[t].out.gcp_resources)

\* A build whose output locations hold a space.
C10_Witness ==
  /\ invoked["t1"]
  /\ call["t1"].out.gcp_resources = "/gcs/other/run 2/gcp_resources"
  /\ ValuesOf(ArgsOf("t1"), "gcp_resources_path") = {"/gcs/other/run 2/gcp_resources"}

====
